---- MODULE Spec2Model ----
(***************************************************************************)
(* Model of the Amazon Bedrock video generation example scripts:           *)
(*   generate_video.py, generate_video_with_storyboard.py,                 *)
(*   simple_example.py and handle_errors.py.                               *)
(* One run of one entry point: submit a job, poll its status, download the *)
(* artifacts, and leave with an exit code.  The remote service, the HTTP   *)
(* server and the wall clock are the environment: every remote call draws  *)
(* its outcome from a small set.                                           *)
(*                                                                         *)
(* A formatted message (an f-string) is modelled as the sequence of its    *)
(* parts: the fixed text of the format (named by a tag) followed by the    *)
(* interpolated values, so that what a message carries can be read off.    *)
(***************************************************************************)
EXTENDS Integers, Sequences, FiniteSets, TLC

VARIABLES
    entry,        \* which script's main() runs
    maxAttempts,  \* max_attempts given to the poller
    timeout,      \* timeout given to wait_for_job_completion
    initFile,     \* content of every destination path before the run
    pc,           \* position of main()
    jobId,        \* job_id extracted from the submission response
    attempt,      \* the poller's loop counter (attempts / attempt)
    now,          \* time.time() - start_time of the last clock reading
    observed,     \* answers of the status queries issued so far, in order
    sleeps,       \* number of time.sleep(interval) calls made by the poller
    submits,      \* number of submission invoke_model calls
    result,       \* response body returned by the poller
    error,        \* exception that left the try block of main()
    handler,      \* except clause of main() that ran
    exitCode,     \* exit status of the process
    downloads,    \* destination paths of the downloads attempted, in order
    files,        \* content of each destination path
    promptArg,    \* args.prompt
    prompts,      \* len(args.prompts) of the storyboard script
    imageCalls,   \* image generation invoke_model calls made so far
    pauses,       \* time.sleep(1) calls made between image generation calls
    storyboard_images,  \* prompt numbers whose image path was appended
    lastRemote,   \* outcome of the last invoke_model + json.loads, as the service gave it
    lastFetch,    \* outcome of the last requests.get
    calls         \* the outward calls made so far, in order: [op, n]

vars == <<entry, maxAttempts, timeout, initFile, pc, jobId, attempt, now,
          observed, sleeps, submits, result, error, handler, exitCode,
          downloads, files, promptArg, prompts, imageCalls, pauses,
          storyboard_images, lastRemote, lastFetch, calls>>

(* ------------------------------ bounds -------------------------------- *)

\* largest max_attempts explored
MaxAttempts == 3
\* largest timeout (in clock units) explored
MaxTimeout == 2
\* largest number of storyboard prompts explored
MaxPrompts == 2

\* clock readings beyond every timeout explored are not told apart
ClockCap == MaxTimeout + 1

(* ------------------------- values of the model ------------------------ *)

Absent == "<absent>"

Entries == {"generate_video", "storyboard", "simple_example", "handle_errors"}

\* entry points that poll with the module level poll_job_status
PollEntries == {"generate_video", "storyboard"}
\* entry points that poll with BedrockVideoClient.wait_for_job_completion
WaitEntries == {"simple_example", "handle_errors"}

JobIds == {"J1", "J2"}
Messages == {"m1", "m2"}

RecognizedCodes == {"AccessDeniedException", "ValidationException",
                    "ResourceNotFoundException", "ThrottlingException",
                    "ServiceQuotaExceededException"}
\* "None" is what e.response.get('Error', {}).get('Code') gives for no code
UnrecognizedCodes == {"InternalServerException", "None"}
VendorCodes == RecognizedCodes \cup UnrecognizedCodes

NonTerminalStatuses == {"running", "submitted", Absent}

(* ----------------------------- exceptions ----------------------------- *)

NoError == [type |-> "none", code |-> "", msg |-> <<>>]

Exc(t, m) == [type |-> t, code |-> "", msg |-> m]

\* botocore ClientError: response['Error'] = {Code, Message}
ClientError(c, m) == [type |-> "ClientError", code |-> c, msg |-> <<m>>]

BVGE(m) == Exc("BedrockVideoGenerationError", m)

\* exceptions a client.invoke_model(...) / json.loads(...) pair can raise
RemoteErrors ==
    {ClientError(c, m) : c \in VendorCodes, m \in Messages}
        \cup {Exc("JSONDecodeError", <<"bad json">>),
              Exc("EndpointConnectionError", <<"connection">>)}

(* --------------------------- response bodies -------------------------- *)

Body(j, s, e, v, t) ==
    [jobId |-> j, status |-> s, errorMessage |-> e, videos |-> v, thumbnails |-> t]

NoBody == Body(Absent, Absent, Absent, "absent", "absent")

\* videos / thumbnails: key absent, empty list, first entry without url,
\* first entry with url
ListShapes == {"absent", "empty", "nourl", "url"}

SubmitBodies == {Body(j, Absent, Absent, "absent", "absent") : j \in JobIds \cup {Absent, ""}}

StatusBodies ==
    {Body(Absent, s, Absent, "absent", "absent") : s \in NonTerminalStatuses}
        \cup {Body(Absent, s, e, "absent", "absent") :
                 s \in {"failed", "expired"}, e \in Messages \cup {Absent}}
        \cup {Body(Absent, "completed", Absent, v, t) : v \in ListShapes, t \in ListShapes}

\* outcome of one remote call: a parsed body or a raised exception
Returned(b) == [raised |-> FALSE, body |-> b, exc |-> NoError]
Raised(e) == [raised |-> TRUE, body |-> NoBody, exc |-> e]

\* no call was made yet
NotCalled == [raised |-> TRUE, body |-> NoBody, exc |-> NoError]

SubmitOutcomes == {Returned(b) : b \in SubmitBodies} \cup {Raised(e) : e \in RemoteErrors}
StatusOutcomes == {Returned(b) : b \in StatusBodies} \cup {Raised(e) : e \in RemoteErrors}

\* dict.get(key, default)
Get(v, default) == IF v = Absent THEN default ELSE v

(* ------------------- handle_errors.py: the classifier ----------------- *)

\* isinstance(e, cls) for the except clauses that occur in the scripts
IsInstance(e, cls) ==
    \/ e.type = cls
    \/ cls = "Exception" /\ e.type # "none"
    \/ cls = "ValueError" /\ e.type = "JSONDecodeError"

\* a classifier whose branches for two codes raise the same text
CodeTagMerged(c) ==
    CASE c = "AccessDeniedException" -> "AccessDenied"
      [] c = "ValidationException" -> "ValidationFailure"
      [] c = "ResourceNotFoundException" -> "ResourceNotFound"
      [] c = "ThrottlingException" -> "Throttled"
      [] c = "ServiceQuotaExceededException" -> "Throttled"
      [] OTHER -> "ServiceError"

\* the fixed text of the message raised for each recognized vendor code
CodeTag(c) ==
    CASE c = "AccessDeniedException" -> "AccessDenied"
      [] c = "ValidationException" -> "ValidationFailure"
      [] c = "ResourceNotFoundException" -> "ResourceNotFound"
      [] c = "ThrottlingException" -> "Throttled"
      [] c = "ServiceQuotaExceededException" -> "QuotaExceeded"
      [] OTHER -> "ServiceError"

\* a decorator whose generic branch is taken for the JSON clause's text
handle_common_errors_generic_as_decode(o) ==
    IF ~o.raised THEN o
    ELSE IF IsInstance(o.exc, "ClientError") THEN
        IF o.exc.code \in RecognizedCodes
            THEN Raised(BVGE(<<CodeTag(o.exc.code), o.exc.msg[1]>>))
            ELSE Raised(BVGE(<<"DecodeError", o.exc.code, o.exc.msg[1]>>))
    ELSE IF IsInstance(o.exc, "JSONDecodeError") THEN
        Raised(BVGE(<<"DecodeError">> \o o.exc.msg))
    ELSE Raised(BVGE(<<"UnexpectedError">> \o o.exc.msg))

\* a decorator without the last except clause: what is neither a vendor
\* error nor a decode error passes through as it is
handle_common_errors_without_catch_all(o) ==
    IF ~o.raised THEN o
    ELSE IF IsInstance(o.exc, "ClientError") THEN
        IF o.exc.code \in RecognizedCodes
            THEN Raised(BVGE(<<CodeTag(o.exc.code), o.exc.msg[1]>>))
            ELSE Raised(BVGE(<<"ServiceError", o.exc.code, o.exc.msg[1]>>))
    ELSE IF IsInstance(o.exc, "JSONDecodeError") THEN
        Raised(BVGE(<<"DecodeError">> \o o.exc.msg))
    ELSE o

\* the decorator: what wrapper(*args) gives when func gives o
handle_common_errors(o) ==
    IF ~o.raised THEN o
    ELSE IF IsInstance(o.exc, "ClientError") THEN
        IF o.exc.code \in RecognizedCodes
            THEN Raised(BVGE(<<CodeTag(o.exc.code), o.exc.msg[1]>>))
            ELSE Raised(BVGE(<<"ServiceError", o.exc.code, o.exc.msg[1]>>))
    ELSE IF IsInstance(o.exc, "JSONDecodeError") THEN
        Raised(BVGE(<<"DecodeError">> \o o.exc.msg))
    ELSE Raised(BVGE(<<"UnexpectedError">> \o o.exc.msg))

(* ---------------- handle_errors.py: BedrockVideoClient ---------------- *)

Prompts == {"", "A cat playing with a ball"}

\* BedrockVideoClient.generate_video: o is the outcome of invoke_model + json.loads
generate_video_method(prompt, o) ==
    handle_common_errors(
        IF prompt = "" THEN Raised(Exc("ValueError", <<"InvalidPrompt">>))
        ELSE o)

\* BedrockVideoClient.check_job_status
check_job_status(job_id, o) ==
    handle_common_errors(
        IF job_id = "" \/ job_id = Absent THEN Raised(Exc("ValueError", <<"InvalidJobId">>))
        ELSE IF o.raised THEN o
        ELSE IF o.body.status = "failed"
            THEN Raised(BVGE(<<"JobFailed", Get(o.body.errorMessage, "unknown error")>>))
        ELSE o)

\* what one pass through a poller's loop body decides
Return(b) == [do |-> "return", body |-> b, exc |-> NoError]
Raise(e) == [do |-> "raise", body |-> NoBody, exc |-> e]
SleepAgain == [do |-> "sleep", body |-> NoBody, exc |-> NoError]

\* a loop body that sleeps once more before it returns the completed response
WaitStepSleepsOnCompleted(job_id, o) ==
    LET r == check_job_status(job_id, o) IN
    IF r.raised THEN
        IF IsInstance(r.exc, "BedrockVideoGenerationError") THEN Raise(r.exc) ELSE SleepAgain
    ELSE IF r.body.status = "failed"
        THEN Raise(BVGE(<<"JobFailed", Get(r.body.errorMessage, "unknown error")>>))
    ELSE IF r.body.status = "expired" THEN Raise(BVGE(<<"JobExpired">>))
    ELSE SleepAgain

\* the try/except inside the loop of wait_for_job_completion
WaitStep(job_id, o) ==
    LET r == check_job_status(job_id, o) IN
    IF r.raised THEN
        IF IsInstance(r.exc, "BedrockVideoGenerationError") THEN Raise(r.exc) ELSE SleepAgain
    ELSE IF r.body.status = "completed" THEN Return(r.body)
    ELSE IF r.body.status = "failed"
        THEN Raise(BVGE(<<"JobFailed", Get(r.body.errorMessage, "unknown error")>>))
    ELSE IF r.body.status = "expired" THEN Raise(BVGE(<<"JobExpired">>))
    ELSE SleepAgain

\* a loop guard that allows one attempt too many
WaitGuardOffByOne(a, m, elapsed, t) == a <= m /\ elapsed < t

\* while attempt < max_attempts and (time.time() - start_time) < timeout
WaitGuard(a, m, elapsed, t) == a < m /\ elapsed < t

\* the TimeoutError raised after the loop of wait_for_job_completion
WaitTimeoutError(job_id, elapsed, t) ==
    IF elapsed >= t
        THEN Exc("TimeoutError", <<"WallClockTimeout", job_id>>)
        ELSE Exc("TimeoutError", <<"AttemptBudget", job_id>>)

(* --------------- generate_video.py / storyboard: the poller ----------- *)

\* a loop body that hands every terminal status back to main()
PollStepReturnsTerminal(job_id, o) ==
    IF o.raised THEN Raise(o.exc)
    ELSE IF o.body.status \in {"completed", "failed", "expired"} THEN Return(o.body)
    ELSE SleepAgain

\* the loop body of poll_job_status (both scripts: the same code)
PollStep(job_id, o) ==
    IF o.raised THEN Raise(o.exc)
    ELSE IF o.body.status = "completed" THEN Return(o.body)
    ELSE IF o.body.status \in {"failed", "expired"}
        THEN Raise(Exc("Exception", <<"JobTerminated", job_id, o.body.status,
                                      Get(o.body.errorMessage, "No error message")>>))
    ELSE SleepAgain

\* a loop guard that lets the poller in once more at the end of the budget
PollGuardOffByOne(a, m) == a <= m

\* while attempts < max_attempts
PollGuard(a, m) == a < m

PollTimeoutError(job_id) == Exc("TimeoutError", <<"DidNotComplete", job_id>>)

(* ------------------------------ downloader ---------------------------- *)

\* what the fetch of one url can do
\*   ok:           success status, the whole body arrives
\*   http_error:   a non-success status (raise_for_status raises)
\*   conn_error:   requests.get itself raises
\*   stream_error: success status, the body breaks off while it is read
FetchOutcomes == {"ok", "http_error", "conn_error", "stream_error"}

\* contents of a path
FileContents == {Absent, "old", "", "partial", "bytes"}

\* os.path.join(args.output_dir, f"video_{job_id}.mp4") of each script
VideoPath(e, j) ==
    IF e = "storyboard" THEN <<"video_storyboard_", j, ".mp4">> ELSE <<"video_", j, ".mp4">>

\* a thumbnail saved under the name of the video
ThumbnailPathAsVideo(e, j) == VideoPath(e, j)

\* os.path.join(args.output_dir, f"thumbnail_{job_id}.jpg") of each script
ThumbnailPath(e, j) ==
    IF e = "storyboard" THEN <<"thumbnail_storyboard_", j, ".jpg">> ELSE <<"thumbnail_", j, ".jpg">>

\* the destination paths a run can name
Paths ==
    {VideoPath(e, j) : e \in Entries, j \in JobIds}
        \cup {ThumbnailPath(e, j) : e \in Entries, j \in JobIds}

Saved(fs) == [raised |-> FALSE, files |-> fs, exc |-> NoError]
Failed(fs, e) == [raised |-> TRUE, files |-> fs, exc |-> e]

\* a downloader that opens the destination before it looks at the status
download_content_opens_first(fs, path, f) ==
    CASE f = "conn_error" -> Failed(fs, Exc("ConnectionError", <<"connection">>))
      [] f = "http_error" -> Failed([fs EXCEPT ![path] = ""], Exc("HTTPError", <<"status">>))
      [] f = "stream_error" -> Failed(fs, Exc("ChunkedEncodingError", <<"broken">>))
      [] OTHER -> Saved([fs EXCEPT ![path] = "bytes"])

\* download_content of generate_video.py and of the storyboard script:
\* requests.get reads the whole body before it returns
download_content(fs, path, f) ==
    CASE f = "conn_error" -> Failed(fs, Exc("ConnectionError", <<"connection">>))
      [] f = "http_error" -> Failed(fs, Exc("HTTPError", <<"status">>))
      [] f = "stream_error" -> Failed(fs, Exc("ChunkedEncodingError", <<"broken">>))
      [] OTHER -> Saved([fs EXCEPT ![path] = "bytes"])

\* download_video of simple_example.py: stream=True, the body is read chunk
\* by chunk after the destination was opened
download_video(fs, path, f) ==
    CASE f = "conn_error" -> Failed(fs, Exc("ConnectionError", <<"connection">>))
      [] f = "http_error" -> Failed(fs, Exc("HTTPError", <<"status">>))
      [] f = "stream_error" ->
            Failed([fs EXCEPT ![path] = "partial"], Exc("ChunkedEncodingError", <<"broken">>))
      [] OTHER -> Saved([fs EXCEPT ![path] = "bytes"])

\* the downloader each script calls
Download(e, fs, path, f) ==
    IF e = "simple_example" THEN download_video(fs, path, f) ELSE download_content(fs, path, f)

(* ------------------------- main(): result handling -------------------- *)

\* what main() does with result['videos'] or result['thumbnails'] of shape l:
\* "fetch" the url, "skip", or raise IndexError on [][0]
ListStep(e, l) ==
    IF e \in PollEntries THEN
        \* if 'videos' in result: url = result['videos'][0].get('url'); if url:
        CASE l = "absent" -> "skip"
          [] l = "empty" -> "index_error"
          [] l = "nourl" -> "skip"
          [] OTHER -> "fetch"
    ELSE
        \* if 'videos' in result and len(result['videos']) > 0: ... if url:
        IF l = "url" THEN "fetch" ELSE "skip"

(* --------------------------- main(): the exits ------------------------ *)

\* the except clause of main() that catches e
HandlerFor(e, x) ==
    IF e \in PollEntries THEN "Exception"
    ELSE IF IsInstance(x, "BedrockVideoGenerationError") THEN "BedrockVideoGenerationError"
    ELSE IF IsInstance(x, "ValueError") THEN "ValueError"
    ELSE IF e = "handle_errors" /\ IsInstance(x, "TimeoutError") THEN "TimeoutError"
    ELSE "Exception"

\* exit status of the process: exit(main()) with return 1 in every except
\* clause and return 0 at the end; handle_errors.py calls main() alone and
\* its main() returns nothing
ExitStatus(e, caught) ==
    IF e = "handle_errors" THEN 0
    ELSE IF caught THEN 1 ELSE 0

(* ------------------------------ the run ------------------------------- *)

Advance(t, d) == IF t + d > ClockCap THEN ClockCap ELSE t + d

\* the answer of a status query as the poller sees it
ErrorAnswer == "<error>"
AnswerOf(o) == IF o.raised THEN ErrorAnswer ELSE o.body.status

Init ==
    /\ entry \in Entries
    /\ maxAttempts \in 0..MaxAttempts
    /\ timeout \in (IF entry \in WaitEntries THEN 0..MaxTimeout ELSE {0})
    /\ initFile \in {Absent, "old"}
    /\ promptArg \in (IF entry = "simple_example" THEN Prompts ELSE Prompts \ {""})
    /\ prompts \in (IF entry = "storyboard" THEN 1..MaxPrompts ELSE {0})
    /\ pc = (IF entry = "storyboard" THEN "images" ELSE "submit")
    /\ jobId = Absent
    /\ attempt = 0
    /\ now = 0
    /\ observed = <<>>
    /\ sleeps = 0
    /\ submits = 0
    /\ result = NoBody
    /\ error = NoError
    /\ handler = "none"
    /\ exitCode = -1
    /\ downloads = <<>>
    /\ files = [p \in Paths |-> initFile]
    /\ imageCalls = 0
    /\ pauses = 0
    /\ storyboard_images = <<>>
    /\ lastRemote = NotCalled
    /\ lastFetch = "none"
    /\ calls = <<>>

\* what a step leaves alone
ArgsUnchanged == UNCHANGED <<entry, maxAttempts, timeout, initFile, promptArg, prompts>>
PollUnchanged == UNCHANGED <<attempt, now, observed, sleeps, result>>
ImagesUnchanged == UNCHANGED <<imageCalls, pauses, storyboard_images>>
ExitUnchanged == UNCHANGED <<handler, exitCode>>
FilesUnchanged == UNCHANGED <<downloads, files, lastFetch>>

\* the exception e leaves the try block of main()
Throw(e) == error' = e /\ pc' = "except"

\* an outward call: op is "image" (n: number of the prompt), "submit",
\* "status" (n: number of the query) or "fetch" (n: number of the download)
Call(op, n) == [op |-> op, n |-> n]

\* a loop that puts the newest image path first
StoreImageFirst(images, i) == <<i>> \o images

\* storyboard_images.append(image_path) for prompt number i
StoreImage(images, i) == Append(images, i)

\* outcome of one image generation call: a body with or without a first
\* artifact, or a raised exception
ImageOutcomes ==
    {[raised |-> FALSE, artifact |-> a, exc |-> NoError] : a \in BOOLEAN}
        \cup {[raised |-> TRUE, artifact |-> FALSE, exc |-> e] : e \in RemoteErrors}

\* generate_storyboard_images: one pass of the loop over the prompts
\* (invoke_model, save the first artifact if there is one, time.sleep(1))
GenerateStoryboardImage ==
    /\ pc = "images"
    /\ imageCalls < prompts
    /\ imageCalls' = imageCalls + 1
    /\ calls' = Append(calls, Call("image", imageCalls + 1))
    /\ \E o \in ImageOutcomes :
          IF o.raised THEN
              /\ Throw(o.exc)
              /\ UNCHANGED <<pauses, storyboard_images>>
          ELSE
              /\ storyboard_images' =
                    (IF o.artifact THEN StoreImage(storyboard_images, imageCalls + 1)
                     ELSE storyboard_images)
              /\ pauses' = pauses + 1
              /\ pc' = (IF imageCalls + 1 = prompts THEN "submit" ELSE "images")
              /\ UNCHANGED error
    /\ ArgsUnchanged /\ PollUnchanged /\ ExitUnchanged /\ FilesUnchanged
    /\ UNCHANGED <<jobId, submits, lastRemote>>

\* the submission call of each script, as main() sees it
SubmitCall(e, p, o) ==
    IF e \in WaitEntries THEN generate_video_method(p, o) ELSE o

\* a check that only looks for an absent key
MissingJobIdOnlyAbsent(j) == j = Absent

\* if not job_id: raise ValueError(...)
MissingJobId(j) == j = Absent \/ j = ""

\* whether the submission reaches invoke_model
SubmitReachesService(e, p) == e \in PollEntries \/ p # ""

\* main(): the submission, response.get('jobId') and the check of it
Submit ==
    /\ pc = "submit"
    /\ \E o \in SubmitOutcomes :
          LET r == SubmitCall(entry, promptArg, o) IN
          /\ submits' = (IF SubmitReachesService(entry, promptArg) THEN submits + 1 ELSE submits)
          /\ lastRemote' = (IF SubmitReachesService(entry, promptArg) THEN o ELSE lastRemote)
          /\ calls' = (IF SubmitReachesService(entry, promptArg)
                          THEN Append(calls, Call("submit", 1)) ELSE calls)
          /\ IF r.raised THEN Throw(r.exc) /\ UNCHANGED jobId
             ELSE IF MissingJobId(r.body.jobId)
                 THEN Throw(Exc("ValueError", <<"MissingJobId">>)) /\ UNCHANGED jobId
             ELSE jobId' = r.body.jobId /\ pc' = "poll" /\ UNCHANGED error
    /\ ArgsUnchanged /\ PollUnchanged /\ ExitUnchanged /\ FilesUnchanged /\ ImagesUnchanged

\* a main() that takes the returned response for the whole work
AfterPollSkipsDownload(e) == "return"

\* where main() goes on when the poller has returned
AfterPoll(e) == IF e = "handle_errors" THEN "return" ELSE "video"

\* poll_job_status: one pass of the loop (query, branch on the status,
\* time.sleep(interval), attempts += 1)
PollIteration ==
    /\ pc = "poll"
    /\ entry \in PollEntries
    /\ PollGuard(attempt, maxAttempts)
    /\ \E o \in StatusOutcomes :
          LET s == PollStep(jobId, o) IN
          /\ observed' = Append(observed, AnswerOf(o))
          /\ lastRemote' = o
          /\ calls' = Append(calls, Call("status", Len(observed) + 1))
          /\ CASE s.do = "return" ->
                    /\ result' = s.body
                    /\ pc' = AfterPoll(entry)
                    /\ UNCHANGED <<attempt, sleeps, error>>
               [] s.do = "raise" ->
                    /\ Throw(s.exc)
                    /\ UNCHANGED <<attempt, sleeps, result>>
               [] OTHER ->
                    /\ sleeps' = sleeps + 1
                    /\ attempt' = attempt + 1
                    /\ UNCHANGED <<pc, error, result>>
    /\ ArgsUnchanged /\ ExitUnchanged /\ FilesUnchanged /\ ImagesUnchanged
    /\ UNCHANGED <<jobId, submits, now>>

\* poll_job_status: the loop ends, raise TimeoutError
PollExhausted ==
    /\ pc = "poll"
    /\ entry \in PollEntries
    /\ ~PollGuard(attempt, maxAttempts)
    /\ Throw(PollTimeoutError(jobId))
    /\ ArgsUnchanged /\ PollUnchanged /\ ExitUnchanged /\ FilesUnchanged /\ ImagesUnchanged
    /\ UNCHANGED <<jobId, submits, lastRemote, calls>>

\* wait_for_job_completion: one pass of the loop; the clock moves on by d
\* while the query and the sleep take place; what is raised leaves through
\* the decorator of wait_for_job_completion
WaitIteration ==
    /\ pc = "poll"
    /\ entry \in WaitEntries
    /\ WaitGuard(attempt, maxAttempts, now, timeout)
    /\ \E o \in StatusOutcomes, d \in 0..1 :
          LET s == WaitStep(jobId, o) IN
          /\ observed' = Append(observed, AnswerOf(o))
          /\ lastRemote' = o
          /\ calls' = Append(calls, Call("status", Len(observed) + 1))
          /\ CASE s.do = "return" ->
                    /\ result' = s.body
                    /\ pc' = AfterPoll(entry)
                    /\ UNCHANGED <<attempt, sleeps, error, now>>
               [] s.do = "raise" ->
                    /\ Throw(handle_common_errors(Raised(s.exc)).exc)
                    /\ UNCHANGED <<attempt, sleeps, result, now>>
               [] OTHER ->
                    /\ sleeps' = sleeps + 1
                    /\ attempt' = attempt + 1
                    /\ now' = Advance(now, d)
                    /\ UNCHANGED <<pc, error, result>>
    /\ ArgsUnchanged /\ ExitUnchanged /\ FilesUnchanged /\ ImagesUnchanged
    /\ UNCHANGED <<jobId, submits>>

\* wait_for_job_completion: the loop ends; the clock is read once more
\* (d later) to choose the message of the TimeoutError, which leaves through
\* the decorator
WaitExhausted ==
    /\ pc = "poll"
    /\ entry \in WaitEntries
    /\ ~WaitGuard(attempt, maxAttempts, now, timeout)
    /\ \E d \in 0..1 :
          /\ now' = Advance(now, d)
          /\ Throw(handle_common_errors(Raised(WaitTimeoutError(jobId, now', timeout))).exc)
    /\ ArgsUnchanged /\ ExitUnchanged /\ FilesUnchanged /\ ImagesUnchanged
    /\ UNCHANGED <<jobId, submits, attempt, observed, sleeps, result, lastRemote, calls>>

\* main(): the video of the completed job
ProcessVideo ==
    /\ pc = "video"
    /\ LET step == ListStep(entry, result.videos)
           path == VideoPath(entry, jobId) IN
       CASE step = "skip" -> pc' = "thumbnail" /\ UNCHANGED <<error, downloads, files, lastFetch, calls>>
         [] step = "index_error" ->
               Throw(Exc("IndexError", <<"list index out of range">>))
                   /\ UNCHANGED <<downloads, files, lastFetch, calls>>
         [] OTHER ->
               \E f \in FetchOutcomes :
                  LET r == Download(entry, files, path, f) IN
                  /\ downloads' = Append(downloads, path)
                  /\ lastFetch' = f
                  /\ calls' = Append(calls, Call("fetch", Len(downloads) + 1))
                  /\ files' = r.files
                  /\ IF r.raised THEN Throw(r.exc)
                     ELSE pc' = "thumbnail" /\ UNCHANGED error
    /\ ArgsUnchanged /\ PollUnchanged /\ ExitUnchanged /\ ImagesUnchanged
    /\ UNCHANGED <<jobId, submits, lastRemote>>

\* main(): the thumbnail of the completed job
ProcessThumbnail ==
    /\ pc = "thumbnail"
    /\ LET step == ListStep(entry, result.thumbnails)
           path == ThumbnailPath(entry, jobId) IN
       CASE step = "skip" -> pc' = "return" /\ UNCHANGED <<error, downloads, files, lastFetch, calls>>
         [] step = "index_error" ->
               Throw(Exc("IndexError", <<"list index out of range">>))
                   /\ UNCHANGED <<downloads, files, lastFetch, calls>>
         [] OTHER ->
               \E f \in FetchOutcomes :
                  LET r == Download(entry, files, path, f) IN
                  /\ downloads' = Append(downloads, path)
                  /\ lastFetch' = f
                  /\ calls' = Append(calls, Call("fetch", Len(downloads) + 1))
                  /\ files' = r.files
                  /\ IF r.raised THEN Throw(r.exc)
                     ELSE pc' = "return" /\ UNCHANGED error
    /\ ArgsUnchanged /\ PollUnchanged /\ ExitUnchanged /\ ImagesUnchanged
    /\ UNCHANGED <<jobId, submits, lastRemote>>

\* main() reaches the end of its try block
ReturnFromMain ==
    /\ pc = "return"
    /\ pc' = "exit"
    /\ exitCode' = ExitStatus(entry, FALSE)
    /\ ArgsUnchanged /\ PollUnchanged /\ FilesUnchanged /\ ImagesUnchanged
    /\ UNCHANGED <<jobId, submits, error, handler, lastRemote, calls>>

\* an except clause of main() catches the exception and logs it
Except ==
    /\ pc = "except"
    /\ pc' = "exit"
    /\ handler' = HandlerFor(entry, error)
    /\ exitCode' = ExitStatus(entry, TRUE)
    /\ ArgsUnchanged /\ PollUnchanged /\ FilesUnchanged /\ ImagesUnchanged
    /\ UNCHANGED <<jobId, submits, error, lastRemote, calls>>

Next ==
    \/ GenerateStoryboardImage
    \/ Submit
    \/ PollIteration
    \/ PollExhausted
    \/ WaitIteration
    \/ WaitExhausted
    \/ ProcessVideo
    \/ ProcessThumbnail
    \/ ReturnFromMain
    \/ Except

Spec == Init /\ [][Next]_vars

\* every remote call, every sleep and every fetch returns, and the
\* interpreter goes on to the next statement: a step that can be taken is
\* taken
FairSpec == Spec /\ WF_vars(Next)

(* ------------------------- reading the state -------------------------- *)

Last(q) == q[Len(q)]

\* the message of e holds the text x
Carries(e, x) == \E i \in DOMAIN e.msg : e.msg[i] = x

\* the poller of this run returned the completed response to main()
PollerReturned == result # NoBody

\* the poller of this run was left by an exception
PollerRaised == jobId # Absent /\ result = NoBody /\ error # NoError

\* the fixed texts of the failures raised when the budget is exhausted
TimeoutTexts == {"WallClockTimeout", "AttemptBudget", "DidNotComplete"}
IsTimeoutFailure(e) == \E x \in TimeoutTexts : Carries(e, x)

\* the first n answers were all non-terminal statuses
AllNonTerminal(q, n) == \A i \in 1..n : q[i] \in NonTerminalStatuses

\* the clock of wait_for_job_completion has not reached the timeout
\* (poll_job_status has no timeout)
ClockBelowTimeout == entry \in WaitEntries => now < timeout

(* ------------------------------- claims ------------------------------- *)

\* C1: a status query that fails with a transient transport or service
\* error never aborts the wait: when the poller has failed and its last
\* status query was answered by such an error, the failure is the exhausted
\* budget, and the poller slept after that query.
C1_TransientErrorNeverAbortsWait ==
    (PollerRaised /\ observed # <<>> /\ Last(observed) = ErrorAnswer)
        => (IsTimeoutFailure(error) /\ sleeps = Len(observed))

\* C2: when the first k status queries are answered by a non-terminal
\* status and query k+1 by 'completed' (k < max_attempts, timeout not
\* reached), the poller returns that response after exactly k+1 queries and
\* exactly k sleeps; and while fewer than max_attempts non-terminal answers
\* were seen and the timeout is not reached, the next query is issued.
C2_CompletedAfterKRunning ==
    /\ (observed # <<>> /\ Last(observed) = "completed"
            /\ AllNonTerminal(observed, Len(observed) - 1))
        => /\ PollerReturned
           /\ result = lastRemote.body
           /\ Len(observed) <= maxAttempts
           /\ sleeps = Len(observed) - 1
           /\ attempt = Len(observed) - 1
    /\ (pc = "poll" /\ AllNonTerminal(observed, Len(observed))
            /\ Len(observed) < maxAttempts /\ ClockBelowTimeout)
        => /\ ENABLED (PollIteration \/ WaitIteration)
           /\ ~ENABLED (PollExhausted \/ WaitExhausted)

C2_Witness ==
    /\ observed = <<"running", "running", "completed">>
    /\ PollerReturned
    /\ sleeps = 2
    /\ entry = "simple_example"

\* C3: when a status query reports 'failed' or 'expired', the poller fails
\* at once with an error that carries the errorMessage of the response, with
\* no sleep and no further status query after that observation.
C3_TerminalStatusFailsAtOnceWithVendorMessage ==
    (observed # <<>> /\ Last(observed) \in {"failed", "expired"})
        => /\ PollerRaised
           /\ pc \in {"except", "exit"}
           /\ sleeps = Len(observed) - 1
           /\ (lastRemote.body.errorMessage # Absent
                  => Carries(error, lastRemote.body.errorMessage))

\* C4: with max_attempts = N >= 1, every status answered by a non-terminal
\* status and the timeout not reached, the poller fails with the timeout
\* failure after exactly N status queries; query N+1 is never issued.
C4_TimeoutAfterExactlyNQueries ==
    /\ Len(observed) <= maxAttempts
    /\ (maxAttempts >= 1 /\ PollerRaised /\ AllNonTerminal(observed, Len(observed))
            /\ ClockBelowTimeout)
        => /\ IsTimeoutFailure(error)
           /\ Len(observed) = maxAttempts
           /\ sleeps = maxAttempts
    /\ (pc = "poll" /\ Len(observed) = maxAttempts)
        => /\ ~ENABLED (PollIteration \/ WaitIteration)
           /\ ENABLED (PollExhausted \/ WaitExhausted)

C4_Witness ==
    /\ maxAttempts = 3
    /\ observed = <<"running", "running", "running">>
    /\ PollerRaised
    /\ IsTimeoutFailure(error)
    /\ ClockBelowTimeout
    /\ entry = "handle_errors"

\* C5: the poller reports the exhausted budget as a timeout error kind of
\* its own: a failure of the poller is a TimeoutError exactly when it is the
\* timeout failure, so a job that failed or expired is another kind, and in
\* handle_errors.py the except TimeoutError clause of main() is the one
\* that runs on a timeout.
C5_TimeoutIsItsOwnErrorKind ==
    PollerRaised
        => /\ IsTimeoutFailure(error) <=> error.type = "TimeoutError"
           /\ (pc = "exit" /\ entry = "handle_errors" /\ IsTimeoutFailure(error))
                 => handler = "TimeoutError"

\* the taxonomy of section 7 of the specification for the recognized codes
ExpectedTag(c) ==
    CASE c = "AccessDeniedException" -> "AccessDenied"
      [] c = "ValidationException" -> "ValidationFailure"
      [] c = "ResourceNotFoundException" -> "ResourceNotFound"
      [] c = "ThrottlingException" -> "Throttled"
      [] c = "ServiceQuotaExceededException" -> "QuotaExceeded"

\* the submission of BedrockVideoClient.generate_video reached the service
\* and the service answered with a vendor error
WrappedSubmissionFailed ==
    /\ entry \in WaitEntries
    /\ pc \in {"except", "exit"}
    /\ observed = <<>>
    /\ lastRemote.raised
    /\ lastRemote.exc.type = "ClientError"

\* a status check inside wait_for_job_completion was answered with a vendor error
WrappedStatusCheckFailed ==
    /\ entry \in WaitEntries
    /\ pc \in {"except", "exit"}
    /\ observed # <<>>
    /\ lastRemote.raised
    /\ lastRemote.exc.type = "ClientError"

OtherTags == {ExpectedTag(c) : c \in RecognizedCodes} \cup {"DecodeError", "UnexpectedError"}

\* C7: for every vendor code outside the recognized set (an absent code
\* included), a wrapped method whose remote call fails with it
\* (generate_video in a run, check_job_status for every code and message)
\* raises BedrockVideoGenerationError with the generic service-error text,
\* the code and the message, and none of the other texts.  When the status
\* check fails inside wait_for_job_completion, that error leaves the method
\* behind the unexpected-error text.
C7_UnrecognizedCodeGivesServiceError ==
    /\ (WrappedSubmissionFailed /\ lastRemote.exc.code \notin RecognizedCodes)
        => /\ error = BVGE(<<"ServiceError", lastRemote.exc.code, lastRemote.exc.msg[1]>>)
           /\ \A t \in OtherTags : ~Carries(error, t)
    /\ \A c \in UnrecognizedCodes, m \in Messages :
          check_job_status("J1", Raised(ClientError(c, m))).exc = BVGE(<<"ServiceError", c, m>>)
    /\ (WrappedStatusCheckFailed /\ lastRemote.exc.code \notin RecognizedCodes)
        => error = BVGE(<<"UnexpectedError", "ServiceError", lastRemote.exc.code,
                          lastRemote.exc.msg[1]>>)

C7_Witness ==
    /\ WrappedSubmissionFailed
    /\ lastRemote.exc = ClientError("None", "m1")
    /\ error.msg = <<"ServiceError", "None", "m1">>

\* the submission call returned a body without a (non-empty) jobId
SubmissionWithoutJobId ==
    /\ pc \notin {"images", "submit"}
    /\ submits = 1
    /\ observed = <<>>
    /\ ~lastRemote.raised
    /\ lastRemote.body.jobId \in {Absent, ""}

\* C8: in every entry point, when the submission response has no jobId
\* (absent or empty), the run fails with the missing-job-id ValueError and
\* issues no status query and no download; the submission made exactly one
\* remote call; and a status query or a download is only ever issued with a
\* non-empty jobId.
C8_MissingJobIdStopsBeforePolling ==
    /\ SubmissionWithoutJobId
        => /\ pc \in {"except", "exit"}
           /\ error = Exc("ValueError", <<"MissingJobId">>)
           /\ downloads = <<>>
           /\ files = [p \in Paths |-> initFile]
    /\ (observed # <<>> \/ downloads # <<>>)
        => (jobId \in JobIds /\ submits = 1)

C8_Witness ==
    /\ SubmissionWithoutJobId
    /\ lastRemote.body.jobId = ""
    /\ entry = "storyboard"
    /\ imageCalls = 2
    /\ pc = "exit"
    /\ error.type = "ValueError"

\* C9: when the fetch of the downloader returns a non-success status, the
\* downloader raises the HTTP error and the destination path is left as it
\* was before the run: nothing is created or truncated there.
C9_FailedStatusLeavesDestination ==
    (downloads # <<>> /\ lastFetch = "http_error")
        => /\ pc \in {"except", "exit"}
           /\ error = Exc("HTTPError", <<"status">>)
           /\ files[Last(downloads)] = initFile

C9_Witness ==
    /\ lastFetch = "http_error"
    /\ Len(downloads) = 2
    /\ initFile = Absent
    /\ files[downloads[1]] = "bytes"
    /\ files[downloads[2]] = Absent
    /\ pc = "exit"

\* C10: every entry point ends with exit code 0 exactly when the run
\* succeeded, and with exit code 1 whenever an except clause of main()
\* caught an error.
C10_ExitCodeOneIffErrorCaught ==
    pc = "exit"
        => /\ exitCode = 0 <=> (error = NoError /\ handler = "none")
           /\ handler # "none" => exitCode = 1

\* the place of each kind of outward call in a run
Rank(op) ==
    CASE op = "image" -> 0
      [] op = "submit" -> 1
      [] op = "status" -> 2
      [] OTHER -> 3

\* the calls were made in the order images, submission, status queries, fetches
CallsInOrder == \A i \in 1..Len(calls), j \in 1..Len(calls) :
                    i < j => Rank(calls[i].op) <= Rank(calls[j].op)

\* the end-to-end scenario of a text-to-video run: a jobId was returned, the
\* status polls answered running, running, completed with a first video url
\* and no thumbnails, and no fetch failed
EndToEndScenario ==
    /\ entry \in {"generate_video", "simple_example"}
    /\ pc = "exit"
    /\ observed = <<"running", "running", "completed">>
    /\ lastRemote.body.videos = "url"
    /\ lastRemote.body.thumbnails = "absent"
    /\ lastFetch \in {"none", "ok"}

\* C11: in the end-to-end text-to-video scenario the run makes one
\* submission, then exactly three status queries, then the download, writes
\* the fetched bytes to video_<jobId>.mp4 and ends with code 0; in every run
\* the order submission, status queries, downloads is never permuted.
C11_EndToEndTextToVideo ==
    /\ EndToEndScenario
        => /\ calls = <<Call("submit", 1), Call("status", 1), Call("status", 2),
                        Call("status", 3), Call("fetch", 1)>>
           /\ jobId \in JobIds
           /\ downloads = << <<"video_", jobId, ".mp4">> >>
           /\ files[<<"video_", jobId, ".mp4">>] = "bytes"
           /\ \A p \in Paths \ {<<"video_", jobId, ".mp4">>} : files[p] = initFile
           /\ error = NoError
           /\ exitCode = 0
    /\ CallsInOrder

C11_Witness ==
    /\ EndToEndScenario
    /\ entry = "generate_video"
    /\ jobId = "J1"
    /\ initFile = Absent
    /\ files[<<"video_", "J1", ".mp4">>] = "bytes"
    /\ exitCode = 0

\* the video of the completed job was fetched: it is the first download
VideoFetched == result.videos = "url" /\ Len(downloads) >= 1

\* the thumbnail of the completed job was fetched: it is the last download
ThumbnailFetched ==
    /\ result.thumbnails = "url"
    /\ Len(downloads) = (IF result.videos = "url" THEN 2 ELSE 1)

\* where the artifacts of job j land according to the claim
ClaimedVideoPath(j) == <<"video_", j, ".mp4">>
ClaimedThumbnailPath(j) == <<"thumbnail_", j, ".jpg">>

\* where the artifacts of job j land, per script
WrittenVideoPath(e, j) ==
    IF e = "storyboard" THEN <<"video_storyboard_", j, ".mp4">> ELSE ClaimedVideoPath(j)
WrittenThumbnailPath(e, j) ==
    IF e = "storyboard" THEN <<"thumbnail_storyboard_", j, ".jpg">> ELSE ClaimedThumbnailPath(j)

\* the destination of the last fetch holds the bytes when the fetch succeeded
LastFetchSaved == (downloads # <<>> /\ lastFetch = "ok") => files[Last(downloads)] = "bytes"

\* C12 (as amended): in generate_video.py and simple_example.py the video of
\* a completed job J is written to exactly video_<J>.mp4 and its thumbnail
\* to exactly thumbnail_<J>.jpg; the storyboard script writes them to
\* video_storyboard_<J>.mp4 and thumbnail_storyboard_<J>.jpg; no other
\* path is written.
C12_ArtifactPathsPerScript ==
    /\ VideoFetched => downloads[1] = WrittenVideoPath(entry, jobId)
    /\ ThumbnailFetched => Last(downloads) = WrittenThumbnailPath(entry, jobId)
    /\ LastFetchSaved
    /\ \A p \in Paths : files[p] # initFile => \E i \in DOMAIN downloads : downloads[i] = p
    /\ Len(downloads) <= 2

C12_Witness ==
    /\ entry = "storyboard"
    /\ jobId = "J2"
    /\ pc = "exit"
    /\ VideoFetched /\ ThumbnailFetched
    /\ files[<<"video_storyboard_", "J2", ".mp4">>] = "bytes"
    /\ files[<<"thumbnail_storyboard_", "J2", ".jpg">>] = "bytes"
    /\ exitCode = 0

\* C12 (as claimed): in every entry point that downloads artifacts the video
\* of a completed job J is written to exactly video_<J>.mp4 and its
\* thumbnail to exactly thumbnail_<J>.jpg.
C12_ArtifactsAtVideoAndThumbnailPath ==
    /\ VideoFetched => downloads[1] = ClaimedVideoPath(jobId)
    /\ ThumbnailFetched => Last(downloads) = ClaimedThumbnailPath(jobId)
    /\ LastFetchSaved

\* the loop check of the poller of the running script holds
LoopGuard ==
    IF entry \in WaitEntries THEN WaitGuard(attempt, maxAttempts, now, timeout)
    ELSE PollGuard(attempt, maxAttempts)

\* one status query is issued
QueryIssued == Len(observed') = Len(observed) + 1

\* the queries stay within the budget; none at all with an empty budget
QueriesWithinBudget ==
    /\ Len(observed) <= maxAttempts
    /\ attempt = sleeps
    /\ attempt <= Len(observed) /\ Len(observed) <= attempt + 1
    /\ pc = "poll" => attempt = Len(observed)
    /\ maxAttempts = 0 => observed = <<>>
    /\ (entry \in WaitEntries /\ timeout = 0) => observed = <<>>

\* a query only behind a loop check that held; one more attempt per pass
\* that stays in the loop, none on a pass that leaves it
OneAttemptPerPass ==
    /\ QueryIssued =>
          /\ pc = "poll" /\ LoopGuard
          /\ pc' = "poll" => attempt' = attempt + 1
          /\ pc' # "poll" => attempt' = attempt
    /\ attempt' # attempt => QueryIssued /\ pc' = "poll"
    /\ (pc = "poll" /\ ~LoopGuard) => (pc' = "except" /\ observed' = observed)

\* C13: every call of the poller terminates when each remote call and each
\* sleep returns; a status query is issued only when the loop check held
\* (attempts < maxAttempts, and elapsed < timeout in wait_for_job_completion);
\* the attempt counter grows by exactly one per pass that stays in the loop;
\* at most maxAttempts queries are issued in every reachable state; with
\* maxAttempts = 0 or (wait_for_job_completion) timeout = 0 no query is
\* issued before the timeout failure.
C13_PollerTerminatesWithinBudget ==
    /\ []QueriesWithinBudget
    /\ [][OneAttemptPerPass]_vars
    /\ (pc = "poll") ~> (pc \in {"video", "return", "except"})
    /\ <>(pc = "exit")

C13_Witness ==
    /\ pc = "exit"
    /\ maxAttempts = MaxAttempts
    /\ Len(observed) = maxAttempts
    /\ attempt = maxAttempts
    /\ \A i \in DOMAIN observed : observed[i] = "running"
    /\ entry = "generate_video"
    /\ IsTimeoutFailure(error)

\* wait_for_job_completion leaves its loop without a terminal status
WaitLoopEnds ==
    /\ entry \in WaitEntries
    /\ pc = "poll"
    /\ ~WaitGuard(attempt, maxAttempts, now, timeout)
    /\ pc' = "except"

\* C14: when wait_for_job_completion leaves its loop without a terminal
\* status, the message of the failure names what ended the loop: the
\* wall-clock timeout when elapsed >= timeout at the loop check, the attempt
\* budget when attempts >= maxAttempts with elapsed < timeout at the loop
\* check; both failures are of the same error kind.
C14_MessageNamesWhatEndedTheLoop ==
    [][WaitLoopEnds =>
          /\ error'.type = "BedrockVideoGenerationError"
          /\ IF now >= timeout
               THEN Carries(error', "WallClockTimeout") /\ ~Carries(error', "AttemptBudget")
               ELSE Carries(error', "AttemptBudget") /\ ~Carries(error', "WallClockTimeout")]_vars

\* the image call of the last pass raised and left generate_storyboard_images
ImageCallRaised ==
    /\ pauses = imageCalls - 1
    /\ pc \in {"except", "exit"}
    /\ error # NoError
    /\ submits = 0

\* the image paths are in the order of their prompts
InPromptOrder(images) ==
    \A i \in 1..Len(images), j \in 1..Len(images) : i < j => images[i] < images[j]

\* C15: the storyboard script issues its image calls in prompt order, one
\* per prompt, each followed by the pause before the next call is made (so
\* no two are in flight); the list of images handed to the video submission
\* is in prompt order; the submission is made only when the call for the
\* last prompt and its pause are over.
C15_StoryboardCallsInPromptOrder ==
    /\ imageCalls <= prompts
    /\ Len(calls) >= imageCalls
    /\ \A i \in 1..Len(calls) :
          IF i <= imageCalls THEN calls[i] = Call("image", i) ELSE calls[i].op # "image"
    /\ pauses = imageCalls \/ ImageCallRaised
    /\ pc = "images" => pauses = imageCalls /\ imageCalls < prompts
    /\ InPromptOrder(storyboard_images)
    /\ \A i \in 1..Len(storyboard_images) : storyboard_images[i] \in 1..pauses
    /\ (entry = "storyboard" /\ submits > 0) =>
          /\ imageCalls = prompts /\ pauses = prompts
          /\ calls[prompts + 1] = Call("submit", 1)
    /\ (entry = "storyboard" /\ pc \notin {"images", "except", "exit"}) => imageCalls = prompts
    /\ entry # "storyboard" => imageCalls = 0 /\ storyboard_images = <<>>

C15_Witness ==
    /\ entry = "storyboard"
    /\ prompts = 2
    /\ storyboard_images = <<1, 2>>
    /\ pauses = 2
    /\ submits = 1
    /\ jobId \in JobIds
    /\ pc = "poll"

\* the run ended on a failure that left a method of BedrockVideoClient
\* (not one raised by main() itself: the job id check, the downloads)
ClientMethodFailed ==
    /\ entry \in WaitEntries
    /\ error # NoError
    /\ result = NoBody
    /\ error # Exc("ValueError", <<"MissingJobId">>)

\* whatever generate_video and check_job_status raise is the domain error
MethodsRaiseOnlyDomainError ==
    /\ \A p \in Prompts, o \in SubmitOutcomes :
          generate_video_method(p, o).raised
              => generate_video_method(p, o).exc.type = "BedrockVideoGenerationError"
    /\ \A j \in JobIds \cup {"", Absent}, o \in StatusOutcomes :
          check_job_status(j, o).raised
              => check_job_status(j, o).exc.type = "BedrockVideoGenerationError"

\* C16: every failure that leaves generate_video, check_job_status or
\* wait_for_job_completion is a BedrockVideoGenerationError, whatever was
\* raised inside (vendor error, decode error, ValueError, TimeoutError, a
\* domain error of a nested call); main() never gets to its ValueError or
\* TimeoutError clause for such a failure.
C16_OnlyDomainErrorLeavesClient ==
    /\ MethodsRaiseOnlyDomainError
    /\ ClientMethodFailed =>
          /\ error.type = "BedrockVideoGenerationError"
          /\ pc = "exit" => handler = "BedrockVideoGenerationError"
    /\ (entry \in WaitEntries /\ handler = "TimeoutError") => FALSE
    /\ (entry \in WaitEntries /\ handler = "ValueError") => error = Exc("ValueError", <<"MissingJobId">>)

C16_Witness ==
    /\ entry = "simple_example"
    /\ promptArg = ""
    /\ ClientMethodFailed
    /\ Carries(error, "InvalidPrompt")
    /\ error.type = "BedrockVideoGenerationError"
    /\ submits = 0
    /\ pc = "exit"
    /\ handler = "BedrockVideoGenerationError"

\* the last status query of the run answered completed
LastQueryCompleted == observed # <<>> /\ Last(observed) = "completed"

\* no download was attempted and no artifact file was touched
NothingDownloaded ==
    /\ downloads = <<>>
    /\ lastFetch = "none"
    /\ \A i \in 1..Len(calls) : calls[i].op # "fetch"
    /\ \A p \in Paths : files[p] = initFile

\* C17: in every run of every script a download of a video or thumbnail is
\* attempted only after a status query for the same job id answered
\* completed in that run; after a failed or expired status, a poll timeout,
\* a submission error or a missing job id nothing is downloaded and no
\* artifact file is written.
C17_DownloadOnlyAfterCompleted ==
    /\ pc \in {"video", "thumbnail"} => LastQueryCompleted /\ PollerReturned
    /\ ~NothingDownloaded =>
          /\ LastQueryCompleted
          /\ PollerReturned /\ result.status = "completed"
          /\ jobId \in JobIds
          /\ \A i \in 1..Len(downloads) : downloads[i][2] = jobId
          /\ \E k \in 1..Len(calls) : calls[k] = Call("status", Len(observed))
          /\ \A i \in 1..Len(calls), k \in 1..Len(calls) :
                (calls[i].op = "fetch" /\ calls[k].op = "status") => k < i
    /\ ~PollerReturned => NothingDownloaded
    /\ ~LastQueryCompleted => NothingDownloaded
    /\ entry = "handle_errors" => NothingDownloaded

C17_Witness ==
    /\ entry = "generate_video"
    /\ observed = <<"running", "completed">>
    /\ jobId = "J1"
    /\ downloads = << <<"video_", "J1", ".mp4">>, <<"thumbnail_", "J1", ".jpg">> >>
    /\ files[<<"thumbnail_", "J1", ".jpg">>] = "bytes"
    /\ pc = "exit"

\* a run that ended on a failed status and downloaded nothing
C17_FailedStatusWitness ==
    /\ entry = "storyboard"
    /\ observed # <<>> /\ Last(observed) = "failed"
    /\ pc = "exit"
    /\ NothingDownloaded

====
